---- MODULE Spec2Model ----
(***************************************************************************)
(* Tagged.parseFile of carbon-clickhouse (uploader/tagged.go) and its      *)
(* single-row variant (unnamed/part_000): one sequential pass over a       *)
(* RowBinary file that turns every new tagged metric into index rows.      *)
(*                                                                         *)
(* Strings that the code inspects byte by byte (metric names, tag names,   *)
(* tag values) are sequences of byte values 0..255; column names, which    *)
(* the code only copies and compares, are TLA+ strings.                    *)
(***************************************************************************)
EXTENDS Integers, Sequences, FiniteSets, TLC

\* ------------------------------------------------------------------ bounds
\* records one file holds at most
MaxRecords == 2
\* parseFile calls made on the file
MaxRuns == 2

\* ------------------------------------------------------- program constants
\* tagged.go:124  if nameLen > 1000
MaxNameLen == 1000

\* byte values the code and net/url name as character literals
Ch == [qm |-> 63, amp |-> 38, eq |-> 61, pct |-> 37, plus |-> 43,
       semi |-> 59, hash |-> 35, sp |-> 32, del |-> 127]

\* "__name__" (tagged.go:146)
NameTag == <<95, 95, 110, 97, 109, 101, 95, 95>>

\* the empty string, also Go's zero value of a missing map entry
EmptyStr == <<>>

\* no error
Nil == "nil"

\* a returned map[string]bool: nil, or the set of its keys
NilMap == [isNil |-> TRUE, keys |-> {}]
MapOf(keys) == [isNil |-> FALSE, keys |-> keys]

\* an empty Go map of strings, and an empty url.Values
EmptyMap == [x \in {} |-> EmptyStr]
EmptyMapQ == [x \in {} |-> <<>>]

\* ------------------------------------------------------------ pure helpers
\* strings.IndexByte / bytes.IndexByte, 1-based; 0 when b does not occur
IndexByte(s, b) ==
    IF \E i \in 1..Len(s) : s[i] = b
    THEN CHOOSE i \in 1..Len(s) : s[i] = b /\ \A j \in 1..(i - 1) : s[j] # b
    ELSE 0

\* the part of s from 1-based position i on (Go s[i-1:])
From(s, i) == SubSeq(s, i, Len(s))

\* strings.Cut(s, sep) for a one-byte sep
Cut(s, b) ==
    LET p == IndexByte(s, b)
    IN  IF p = 0 THEN [before |-> s, after |-> EmptyStr, found |-> FALSE]
        ELSE [before |-> SubSeq(s, 1, p - 1), after |-> From(s, p + 1), found |-> TRUE]

byteIsASCIILetter(b) ==
    ((65 <= b) /\ (b <= 90)) \/ ((97 <= b) /\ (b <= 122))

\* net/url ishex and unhex
ishex(c) == (48 <= c /\ c <= 57) \/ (97 <= c /\ c <= 102) \/ (65 <= c /\ c <= 70)

unhex(c) ==
    IF 48 <= c /\ c <= 57 THEN c - 48
    ELSE IF 97 <= c /\ c <= 102 THEN c - 97 + 10
    ELSE IF 65 <= c /\ c <= 70 THEN c - 65 + 10
    ELSE 0

\* net/url unescape, second pass: the decoded bytes of s from position i on.
\* plus is TRUE in query-component mode, where '+' decodes to a space.
RECURSIVE unescapeFrom(_, _, _)
unescapeFrom(s, i, plus) ==
    IF i > Len(s) THEN EmptyStr
    ELSE IF s[i] = Ch.pct
         THEN <<(unhex(s[i + 1]) * 16 + unhex(s[i + 2])) % 256>> \o unescapeFrom(s, i + 3, plus)
    ELSE IF s[i] = Ch.plus /\ plus
         THEN <<Ch.sp>> \o unescapeFrom(s, i + 1, plus)
    ELSE <<s[i]>> \o unescapeFrom(s, i + 1, plus)

\* net/url shouldEscape(c, encodeHost): the bytes a host may not hold unescaped
shouldEscapeHost(c) ==
    ~ \/ byteIsASCIILetter(c)
      \/ (48 <= c /\ c <= 57)
      \/ c \in {33, 36, 38, 39, 40, 41, 42, 43, 44, 59, 61, 58, 91, 93, 60, 62, 34}
      \/ c \in {45, 95, 46, 126}

\* net/url unescape; mode is "path", "fragment", "user", "query", "host" or
\* "zone". The first pass rejects a '%' not followed by two hex digits and, in
\* the host and zone modes, an escape or a byte a host may not hold; a string
\* with neither '%' nor (in query mode) '+' is returned as it is.
unescape(s, mode) ==
    LET plus == mode = "query"
        pcts == {i \in 1..Len(s) : s[i] = Ch.pct}
        bad  == \E i \in pcts : i + 2 > Len(s) \/ ~ishex(s[i + 1]) \/ ~ishex(s[i + 2])
        is25(i) == s[i + 1] = 50 /\ s[i + 2] = 53
        badHostEsc == /\ mode = "host"
                      /\ \E i \in pcts : unhex(s[i + 1]) < 8 /\ ~is25(i)
        badZoneEsc == /\ mode = "zone"
                      /\ \E i \in pcts :
                            LET v == unhex(s[i + 1]) * 16 + unhex(s[i + 2])
                            IN  ~is25(i) /\ v # Ch.sp /\ shouldEscapeHost(v)
        escaped == {i + 1 : i \in pcts} \cup {i + 2 : i \in pcts}
        badHostByte == /\ mode \in {"host", "zone"}
                       /\ \E i \in 1..Len(s) :
                             /\ i \notin pcts /\ i \notin escaped
                             /\ s[i] # Ch.plus /\ s[i] < 128 /\ shouldEscapeHost(s[i])
        hasPlus == plus /\ \E i \in 1..Len(s) : s[i] = Ch.plus
    IN  IF bad THEN [err |-> TRUE, val |-> EmptyStr]
        ELSE IF badHostEsc \/ badZoneEsc \/ badHostByte THEN [err |-> TRUE, val |-> EmptyStr]
        ELSE IF pcts = {} /\ ~hasPlus THEN [err |-> FALSE, val |-> s]
        ELSE [err |-> FALSE, val |-> unescapeFrom(s, 1, plus)]

PathUnescape(s) == unescape(s, "path")
QueryUnescape(s) == unescape(s, "query")

\* net/url stringContainsCTLByte
stringContainsCTLByte(s) == \E i \in 1..Len(s) : s[i] < 32 \/ s[i] = Ch.del

\* strings.LastIndex for a one-byte separator, 1-based; 0 when b does not occur
LastIndexByte(s, b) ==
    IF \E i \in 1..Len(s) : s[i] = b
    THEN CHOOSE i \in 1..Len(s) : s[i] = b /\ \A j \in (i + 1)..Len(s) : s[j] # b
    ELSE 0

\* strings.HasPrefix
HasPrefix(s, prefix) == Len(s) >= Len(prefix) /\ SubSeq(s, 1, Len(prefix)) = prefix

\* strings.ToLower on ASCII letters
ToLower(s) == [i \in 1..Len(s) |-> IF 65 <= s[i] /\ s[i] <= 90 THEN s[i] + 32 ELSE s[i]]

\* net/url getScheme: the scan stops at the first byte that is not a letter
\* and not a digit, '+', '-' or '.' after the first position; a ':' there ends
\* the scheme (an error at the first position), any other byte means no scheme
getScheme(rawURL) ==
    LET other(c) == (48 <= c /\ c <= 57) \/ c \in {43, 45, 46}
        stops(i) == ~byteIsASCIILetter(rawURL[i]) /\ ~(other(rawURL[i]) /\ i > 1)
        none == [err |-> FALSE, scheme |-> EmptyStr, path |-> rawURL]
    IN  IF ~ \E i \in 1..Len(rawURL) : stops(i) THEN none
        ELSE LET i == CHOOSE k \in 1..Len(rawURL) :
                         stops(k) /\ \A j \in 1..(k - 1) : ~stops(j)
             IN  IF rawURL[i] # 58 THEN none
                 ELSE IF i = 1 THEN [err |-> TRUE, scheme |-> EmptyStr, path |-> EmptyStr]
                 ELSE [err |-> FALSE, scheme |-> SubSeq(rawURL, 1, i - 1),
                       path |-> From(rawURL, i + 1)]

\* net/url validUserinfo
validUserinfo(s) ==
    \A i \in 1..Len(s) :
        \/ byteIsASCIILetter(s[i])
        \/ (48 <= s[i] /\ s[i] <= 57)
        \/ s[i] \in {45, 46, 95, 58, 126, 33, 36, 38, 39, 40, 41, 42, 43, 44, 59, 61, 37, 64}

\* net/url validOptionalPort: empty, or ':' followed by digits only
validOptionalPort(port) ==
    \/ port = EmptyStr
    \/ /\ port[1] = 58
       /\ \A i \in 2..Len(port) : 48 <= port[i] /\ port[i] <= 57

\* strings.Index(s, "%25"), 1-based; 0 when it does not occur
IndexPct25(s) ==
    IF \E z \in 1..(Len(s) - 2) : SubSeq(s, z, z + 2) = <<37, 50, 53>>
    THEN CHOOSE z \in 1..(Len(s) - 2) :
            /\ SubSeq(s, z, z + 2) = <<37, 50, 53>>
            /\ \A y \in 1..(z - 1) : SubSeq(s, y, y + 2) # <<37, 50, 53>>
    ELSE 0

\* an unescaped string returned with an error
UnescapeFailed == [err |-> TRUE, val |-> EmptyStr]

\* net/url parseHost for an IP literal with a zone: host1 + host2 + host3
parseHostZone(host1, host2, host3) ==
    IF host1.err \/ host2.err \/ host3.err THEN UnescapeFailed
    ELSE [err |-> FALSE, val |-> host1.val \o host2.val \o host3.val]

\* net/url parseHost for a host that starts with '[': i is the last ']',
\* zone the first "%25" before it
parseHostLiteral(host, i, zone) ==
    IF i = 0 THEN UnescapeFailed
    ELSE IF ~validOptionalPort(From(host, i + 1)) THEN UnescapeFailed
    ELSE IF zone > 0
         THEN parseHostZone(unescape(SubSeq(host, 1, zone - 1), "host"),
                            unescape(SubSeq(host, zone, i - 1), "zone"),
                            unescape(From(host, i), "host"))
    ELSE unescape(host, "host")

\* net/url parseHost for any other host: i is the last ':'
parseHostName(host, i) ==
    IF i # 0 /\ ~validOptionalPort(From(host, i)) THEN UnescapeFailed
    ELSE unescape(host, "host")

\* net/url parseHost
parseHost(host) ==
    IF HasPrefix(host, <<91>>)
    THEN parseHostLiteral(host, LastIndexByte(host, 93),
                          IndexPct25(SubSeq(host, 1, LastIndexByte(host, 93) - 1)))
    ELSE parseHostName(host, LastIndexByte(host, 58))

\* net/url parseAuthority after the host is parsed: the userinfo is validated
\* and its name and password are unescaped
parseUserinfo(host, userinfo) ==
    IF host.err THEN UnescapeFailed
    ELSE IF ~validUserinfo(userinfo) THEN UnescapeFailed
    ELSE IF IndexByte(userinfo, 58) = 0
         THEN (IF unescape(userinfo, "user").err THEN UnescapeFailed ELSE host)
    ELSE IF unescape(Cut(userinfo, 58).before, "user").err THEN UnescapeFailed
    ELSE IF unescape(Cut(userinfo, 58).after, "user").err THEN UnescapeFailed
    ELSE host

\* net/url parseAuthority with i the last '@' of the authority
parseAuthorityAt(authority, i) ==
    IF i = 0 THEN parseHost(authority)
    ELSE parseUserinfo(parseHost(From(authority, i + 1)), SubSeq(authority, 1, i - 1))

\* net/url parseAuthority: the host, and whether the authority is in error
parseAuthority(authority) == parseAuthorityAt(authority, LastIndexByte(authority, 64))

\* a nil *url.URL returned with an error
NilURL ==
    [err |-> TRUE, Scheme |-> EmptyStr, Opaque |-> EmptyStr, Host |-> EmptyStr,
     Path |-> EmptyStr, RawQuery |-> EmptyStr]

\* a parsed *url.URL
URL(scheme, opaque, host, path, query) ==
    [err |-> FALSE, Scheme |-> scheme, Opaque |-> opaque, Host |-> host,
     Path |-> path, RawQuery |-> query]

\* net/url parse, last step: url.setPath(rest), path being unescape(rest)
parseSetPath(scheme, host, path, query) ==
    IF path.err THEN NilURL
    ELSE URL(scheme, EmptyStr, host, path.val, query)

\* net/url parse, the authority branch, after parseAuthority
parseAfterAuthority(scheme, auth, rest, query) ==
    IF auth.err THEN NilURL
    ELSE parseSetPath(scheme, auth.val, unescape(rest, "path"), query)

\* net/url parse, the authority branch: a is rest[2:] cut at its first '/',
\* what follows the authority (the '/' included) is the path
parseWithAuthority(scheme, a, query) ==
    parseAfterAuthority(scheme, parseAuthority(a.before),
                        IF a.found THEN <<47>> \o a.after ELSE EmptyStr, query)

\* net/url parse after the scheme and the query are split off: a rootless
\* rest after a scheme is opaque, a colon in the first segment of a relative
\* rest is an error, "//" (but not "///" without a scheme) starts an authority
parseRest(scheme, rest, query) ==
    IF ~HasPrefix(rest, <<47>>) /\ scheme # EmptyStr
    THEN URL(scheme, rest, EmptyStr, EmptyStr, query)
    ELSE IF ~HasPrefix(rest, <<47>>) /\ IndexByte(Cut(rest, 47).before, 58) # 0
         THEN NilURL
    ELSE IF (scheme # EmptyStr \/ ~HasPrefix(rest, <<47, 47, 47>>))
                /\ HasPrefix(rest, <<47, 47>>)
         THEN parseWithAuthority(scheme, Cut(From(rest, 3), 47), query)
    ELSE parseSetPath(scheme, EmptyStr, unescape(rest, "path"), query)

\* net/url parse after getScheme: the scheme is lowered and the rest is cut
\* at its first '?'
parseAfterScheme(s, q) ==
    IF s.err THEN NilURL
    ELSE parseRest(ToLower(s.scheme), q.before, q.after)

\* net/url parse(rawURL, viaRequest = false)
parseURL(rawURL) ==
    IF stringContainsCTLByte(rawURL) THEN NilURL
    ELSE IF rawURL = <<42>> THEN URL(EmptyStr, EmptyStr, EmptyStr, <<42>>, EmptyStr)
    ELSE parseAfterScheme(getScheme(rawURL), Cut(getScheme(rawURL).path, Ch.qm))

\* net/url Parse after the fragment is cut off and the rest is parsed: a bad
\* escape in the fragment is an error
parseSetFragment(u, frag) ==
    IF u.err THEN NilURL
    ELSE IF frag # EmptyStr /\ unescape(frag, "fragment").err THEN NilURL
    ELSE u

\* net/url Parse
UrlParse(rawURL) ==
    parseSetFragment(parseURL(Cut(rawURL, Ch.hash).before), Cut(rawURL, Ch.hash).after)

\* net/url parseQuery: the (key, value) pairs of the query in order; a segment
\* holding ';', an empty segment, and a pair whose key or value has a bad
\* escape are dropped (Query() discards the error).
RECURSIVE parseQuery(_)
parseQuery(query) ==
    IF query = EmptyStr THEN <<>>
    ELSE LET c    == Cut(query, Ch.amp)
             rest == parseQuery(c.after)
             kv   == Cut(c.before, Ch.eq)
             k    == QueryUnescape(kv.before)
             v    == QueryUnescape(kv.after)
         IN  IF IndexByte(c.before, Ch.semi) # 0 THEN rest
             ELSE IF c.before = EmptyStr THEN rest
             ELSE IF k.err \/ v.err THEN rest
             ELSE <<[key |-> k.val, value |-> v.val]>> \o rest

\* url.URL.Query(): tag name -> the values given to it, in query order
Query(rawQuery) ==
    LET pairs == parseQuery(rawQuery)
        vals(k) == LET sel == SelectSeq(pairs, LAMBDA q : q.key = k)
                   IN  [i \in 1..Len(sel) |-> sel[i].value]
    IN  [k \in {pairs[i].key : i \in DOMAIN pairs} |-> vals(k)]

\* a nil *url.URL returned by urlParse with an error
urlParseFailed == [err |-> TRUE, Path |-> EmptyStr, Query |-> EmptyMapQ]

\* urlParse, tagged.go:61-63: a name without '?' is what url.Parse makes of it
urlParseWhole(u) ==
    IF u.err THEN urlParseFailed
    ELSE [err |-> FALSE, Path |-> u.Path, Query |-> Query(u.RawQuery)]

\* urlParse, tagged.go:64-71: m is url.Parse of the part from '?' on, and its
\* path is the unescaped part before the '?'
urlParseQuery(m, path) ==
    IF m.err \/ path.err THEN urlParseFailed
    ELSE [err |-> FALSE, Path |-> path.val, Query |-> Query(m.RawQuery)]

\* urlParse, tagged.go:59
urlParse(rawUrl) ==
    LET p == IndexByte(rawUrl, Ch.qm)
    IN  IF p = 0 THEN urlParseWhole(UrlParse(rawUrl))
        ELSE urlParseQuery(UrlParse(From(rawUrl, p)), PathUnescape(SubSeq(rawUrl, 1, p - 1)))

\* ------------------------------------------------------------------ inputs
\* cpu?a=1&b=2
NameCpu == <<99, 112, 117, 63, 97, 61, 49, 38, 98, 61, 50>>
\* a%70p?env=p&env=s&r=1+2&x=%zz&e;&#f
\* (escaped path "app", env given twice, '+', a bad escape, ';', a fragment)
NameApp == <<97, 37, 55, 48, 112, 63, 101, 110, 118, 61, 112, 38, 101, 110, 118, 61, 115,
             38, 114, 61, 49, 43, 50, 38, 120, 61, 37, 122, 122, 38, 101, 59, 38, 35, 102>>
\* 1up?a=1                  (first byte is a digit)
NameDigit == <<49, 117, 112, 63, 97, 61, 49>>
\* c%zu?a=1                 (bad escape in the path)
NameBadPath == <<99, 37, 122, 117, 63, 97, 61, 49>>
\* plain                    (not tagged)
NamePlain == <<112, 108, 97, 105, 110>>
\* a?#fff...f of MaxNameLen bytes (no tag, a long fragment), and of one byte more
NameAtLimit == <<97, 63, 35>> \o [i \in 1..(MaxNameLen - 3) |-> 102]
NameOverLimit == <<97, 63, 35>> \o [i \in 1..(MaxNameLen - 2) |-> 102]

\* the records a file is made of: the day reader.Days() answers, and the name
Records ==
    {[days |-> 19000, name |-> n] :
        n \in {NameCpu, NameApp, NameDigit, NameBadPath,
               NamePlain, NameAtLimit, NameOverLimit}}
    \cup {[days |-> 19001, name |-> NameCpu]}

\* config.DedicatedTags: env -> Env and b -> B
EnvAndB == <<[Name |-> <<101, 110, 118>>, Column |-> "Env"], [Name |-> <<98>>, Column |-> "B"]>>

\* the configurations: DedicatedTags none or EnvAndB, IgnoredTaggedMetrics
\* none, "*" or "app"
ConfigChoices ==
    {[DedicatedTags |-> <<>>,    IgnoredTaggedMetrics |-> <<>>],
     [DedicatedTags |-> EnvAndB, IgnoredTaggedMetrics |-> <<>>],
     [DedicatedTags |-> <<>>,    IgnoredTaggedMetrics |-> <<(<<42>>)>>],
     [DedicatedTags |-> EnvAndB, IgnoredTaggedMetrics |-> <<(<<97, 112, 112>>)>>]}

\* what the existence cache holds before the first call
CacheChoices == {{}, {<<19000, NameCpu>>}}

\* seconds since the epoch, an int64 kept as hi * 2^16 + lo: 2^32 - 1 at the
\* first call, and one second more at each later call
ClockStart == [hi |-> 65535, lo |-> 65535]

Tick(c) == IF c.lo = 65535 THEN [hi |-> c.hi + 1, lo |-> 0] ELSE [hi |-> c.hi, lo |-> c.lo + 1]

\* uint32(time.Now().Unix()), tagged.go:85
Uint32(c) == [hi |-> c.hi % 65536, lo |-> c.lo]

\* -------------------------------------------------------------------- state
VARIABLES
    routeTags,      \* Tagged.routeTags: tag name -> column name
    extraColumns,   \* Tagged.extraColumns
    ignoredMetrics, \* Tagged.ignoredMetrics, as the set of its keys
    existsCache,    \* the keys existsCache.Exists answers true for
    file,           \* the records of the file, as far as a reader has seen them
    fileEnd,        \* how the file ends: "unread", "eof" or "corrupt"
    clock,          \* time.Now().Unix()
    run,            \* parseFile calls started
    reader,         \* this call's reader: "none", "failed" (NewReader returned an
                    \* error), "open", or the error that ended it, "eof" or "corrupt"
    pc,             \* "idle", "loop" (inside LineLoop) or "returned"
    pos,            \* records the reader has returned in this call
    newTagged,
    version,
    wb,             \* the row buffer: the rows written to it since its Reset
    tagsBuf,        \* the tag buffer: the strings written to it since its Reset
    tagsList,
    extraValues,
    out,            \* this call's Write calls on the sink: the chunk, and whether it failed
    ret,            \* the map the last finished call returned (NilMap for a nil map)
    err             \* the error the last finished call returned (Nil for none)

config == <<routeTags, extraColumns, ignoredMetrics>>
locals == <<newTagged, version, wb, tagsBuf, tagsList, extraValues>>
vars == <<routeTags, extraColumns, ignoredMetrics, existsCache, file, fileEnd, clock, run,
          reader, pc, pos, newTagged, version, wb, tagsBuf, tagsList, extraValues, out, ret, err>>

\* ----------------------------------------------------------- construction
\* NewTagged, tagged.go:34-39: the last registration of a name wins
routeTagsOf(tags) ==
    [n \in {tags[i].Name : i \in DOMAIN tags} |->
        LET I == {i \in DOMAIN tags : tags[i].Name = n}
        IN  tags[CHOOSE i \in I : \A j \in I : j <= i].Column]

extraColumnsOf(tags) == [i \in DOMAIN tags |-> tags[i].Column]

\* NewTagged, tagged.go:51-54
ignoredMetricsOf(list) == {list[i] : i \in DOMAIN list}

InitWith(configs) ==
    /\ \E cfg \in configs :
          /\ routeTags = routeTagsOf(cfg.DedicatedTags)
          /\ extraColumns = extraColumnsOf(cfg.DedicatedTags)
          /\ ignoredMetrics = ignoredMetricsOf(cfg.IgnoredTaggedMetrics)
    /\ existsCache \in CacheChoices
    /\ file = <<>>
    /\ fileEnd = "unread"
    /\ clock = ClockStart
    /\ run = 0
    /\ reader = "none"
    /\ pc = "idle"
    /\ pos = 0
    /\ newTagged = {}
    /\ version = Uint32([hi |-> 0, lo |-> 0])
    /\ wb = <<>>
    /\ tagsBuf = <<>>
    /\ tagsList = <<>>
    /\ extraValues = EmptyMap
    /\ out = <<>>
    /\ ret = NilMap
    /\ err = Nil

Init == InitWith(ConfigChoices)

\* ---------------------------------------------------------- parseFile steps
\* fmt.Sprintf("%d:%s", reader.Days(), nameStr): the day in decimal digits up
\* to the first ':', then the name, so two keys are equal exactly when day and
\* name are
Key(rec) == <<rec.days, rec.name>>

\* existsCache.Exists(key), tagged.go:113
Exists(key) == key \in existsCache

\* a gate that never finds a key in the in-batch set
SeenNever(key) == FALSE

\* newTagged[key], tagged.go:117
Seen(key) == key \in newTagged

\* a key that is never recorded in the in-batch set
MarkSeenForgets(key) == newTagged

\* newTagged[key] = true, tagged.go:139
MarkSeen(key) == newTagged \cup {key}

\* tagged.go:106
IsTagged(name) == IndexByte(name, Ch.qm) # 0

\* a length check against a threshold ten times too large
TooLongWide(name) == Len(name) > 10 * MaxNameLen

\* tagged.go:123-124
TooLong(name) == Len(name) > MaxNameLen

\* tagged.go:129
WrongFirstChar(name) == Len(name) > 0 /\ ~byteIsASCIILetter(name[1])

\* fmt.Sprintf("%s=%s", name, value)
TagString(name, value) == name \o <<Ch.eq>> \o value

\* a Go map read: the zero value for a missing key
MapGet(m, k) == IF k \in DOMAIN m THEN m[k] ELSE EmptyStr

\* a Go map write
MapPut(m, k, v) == [x \in DOMAIN m \cup {k} |-> IF x = k THEN v ELSE m[x]]

\* an ignore rule that forgets the "*" entry
ignoreOnlyListed(path) == path \in ignoredMetrics

\* tagged.go:152
ignoreAllButName(path) == path \in ignoredMetrics \/ <<42>> \in ignoredMetrics

\* the dedicated values of the previous metric kept in the map
ResetExtraValuesKeeps(old) == old

\* extraValues = make(map[string]string), tagged.go:144
ResetExtraValues(old) == EmptyMap

\* the index tags of the previous metric kept in the list
ResetTagsListKeeps(old) == old

\* tagsList = tagsList[:0], tagged.go:143
ResetTagsList(old) == <<>>

\* wb.Reset(), tagged.go:141
ResetWb(old) == <<>>

\* tagged.go:155-158: a dedicated tag goes to its column only
RoutedTag(acc, column, value) ==
    [acc EXCEPT !.extraValues = MapPut(@, column, value)]

\* a tag counted only when it is listed for a row of its own
GenericTagCountsListed(acc, t, ignore) ==
    [acc EXCEPT !.tagsBuf = Append(@, t),
                !.tagsWritten = IF ~ignore THEN @ + 1 ELSE @,
                !.tagsList = IF ~ignore THEN Append(@, t) ELSE @]

\* tagged.go:160-166: any other tag goes to the tag buffer and is counted, and
\* is listed for a row of its own unless the metric is ignored
GenericTag(acc, t, ignore) ==
    [acc EXCEPT !.tagsBuf = Append(@, t),
                !.tagsWritten = @ + 1,
                !.tagsList = IF ~ignore THEN Append(@, t) ELSE @]

\* tagged.go:154-167: the loop over m.Query(), in the order the map iteration
\* happens to take
RECURSIVE QueryLoop(_, _, _, _)
QueryLoop(acc, query, order, ignore) ==
    IF order = <<>> THEN acc
    ELSE LET name   == Head(order)
             values == query[name]
             next   == IF name \in DOMAIN routeTags
                       THEN RoutedTag(acc, routeTags[name], values[1])
                       ELSE GenericTag(acc, TagString(name, values[1]), ignore)
         IN  QueryLoop(next, query, Tail(order), ignore)

\* the orders in which a range over a Go map with key set S can run
Orders(S) ==
    {o \in [1..Cardinality(S) -> S] : \A i, j \in DOMAIN o : i # j => o[i] # o[j]}

\* tagged.go:171-181: one row in the write buffer
Row(days, tag, name, acc) ==
    [Date |-> days, Name |-> tag, Path |-> name, TagCount |-> acc.tagsWritten,
     Tags |-> acc.tagsBuf, Version |-> version,
     Extra |-> [j \in 1..Len(extraColumns) |-> MapGet(acc.extraValues, extraColumns[j])]]

\* tagged.go:169-182
Rows(rec, acc) ==
    [i \in 1..Len(acc.tagsList) |-> Row(rec.days, acc.tagsList[i], rec.name, acc)]

\* tagged.go:141-167: what one metric leaves in the buffers
Metric(m, order) ==
    LET t == TagString(NameTag, m.Path)
    IN  QueryLoop([extraValues |-> ResetExtraValues(extraValues),
                   tagsBuf     |-> <<t>>,
                   tagsList    |-> Append(ResetTagsList(tagsList), t),
                   tagsWritten |-> 1],
                  m.Query, order, ignoreAllButName(m.Path))

\* a write error that is dropped, the loop going on
WriteErrorIgnored == [pc |-> "loop", ret |-> ret, err |-> err]

\* what parseFile returns when out.Write fails, tagged.go:185-187
WriteError == [pc |-> "returned", ret |-> NilMap, err |-> "write"]

\* an open error answered like an empty file
OpenErrorSwallowed == [pc |-> "returned", ret |-> MapOf({}), err |-> Nil]

\* what parseFile returns when the reader cannot be opened, tagged.go:79-81
OpenError == [pc |-> "returned", ret |-> NilMap, err |-> "open"]

\* what parseFile returns when ReadRecord fails, tagged.go:101-103 and 190
ReadError(kind) == [pc |-> "returned", ret |-> MapOf(newTagged), err |-> Nil]

\* tagged.go:74-96: the call, with a sink of its own, up to LineLoop
parseFileOpen ==
    /\ pc \in {"idle", "returned"}
    /\ run < MaxRuns
    /\ run' = run + 1
    /\ clock' = Tick(clock)
    /\ reader' = "open"
    /\ pc' = "loop"
    /\ pos' = 0
    /\ newTagged' = {}
    /\ version' = Uint32(clock)
    /\ wb' = <<>>
    /\ tagsBuf' = <<>>
    /\ tagsList' = <<>>
    /\ extraValues' = EmptyMap
    /\ out' = <<>>
    /\ UNCHANGED <<config, existsCache, file, fileEnd, ret, err>>

\* tagged.go:78-81: RowBinary.NewReader fails, before any local is set up
parseFileOpenFails ==
    /\ pc \in {"idle", "returned"}
    /\ run < MaxRuns
    /\ run' = run + 1
    /\ clock' = Tick(clock)
    /\ reader' = "failed"
    /\ pc' = OpenError.pc
    /\ ret' = OpenError.ret
    /\ err' = OpenError.err
    /\ out' = <<>>
    /\ pos' = 0
    /\ newTagged' = {}
    /\ version' = Uint32([hi |-> 0, lo |-> 0])
    /\ wb' = <<>>
    /\ tagsBuf' = <<>>
    /\ tagsList' = <<>>
    /\ extraValues' = EmptyMap
    /\ UNCHANGED <<config, existsCache, file, fileEnd>>

\* the records reader.ReadRecord may return next: the one the file is known to
\* hold at this position, or any record when the file was never read this far
NextRecords ==
    IF pos < Len(file) THEN {file[pos + 1]}
    ELSE IF fileEnd = "unread" /\ Len(file) < MaxRecords THEN Records
    ELSE {}

\* reader.ReadRecord returns rec, tagged.go:100
Read(rec) ==
    /\ pc = "loop"
    /\ rec \in NextRecords
    /\ pos' = pos + 1
    /\ file' = IF pos < Len(file) THEN file ELSE Append(file, rec)
    /\ UNCHANGED <<config, existsCache, fileEnd, clock, run, reader, version>>

\* a record that is skipped changes nothing but the reader's position
Skip(rec) ==
    /\ Read(rec)
    /\ UNCHANGED <<pc, newTagged, wb, tagsBuf, tagsList, extraValues, out, ret, err>>

\* tagged.go:100-103 and 190: io.EOF or a corrupted file ends the loop
ReadEnd ==
    /\ pc = "loop"
    /\ pos = Len(file)
    /\ \E kind \in (IF fileEnd = "unread" THEN {"eof", "corrupt"} ELSE {fileEnd}) :
          /\ fileEnd' = kind
          /\ reader' = kind
          /\ pc' = ReadError(kind).pc
          /\ ret' = ReadError(kind).ret
          /\ err' = ReadError(kind).err
    /\ UNCHANGED <<config, existsCache, file, clock, run, pos, locals, out>>

\* tagged.go:106-108
SkipNotTagged ==
    \E rec \in NextRecords :
        /\ ~IsTagged(rec.name)
        /\ Skip(rec)

\* tagged.go:113-115
SkipExists ==
    \E rec \in NextRecords :
        /\ IsTagged(rec.name)
        /\ Exists(Key(rec))
        /\ Skip(rec)

\* tagged.go:117-119
SkipSeen ==
    \E rec \in NextRecords :
        /\ IsTagged(rec.name)
        /\ ~Exists(Key(rec))
        /\ Seen(Key(rec))
        /\ Skip(rec)

\* the record passed the not-tagged check and the deduplication gate
Fresh(rec) == IsTagged(rec.name) /\ ~Exists(Key(rec)) /\ ~Seen(Key(rec))

\* tagged.go:123-127
SkipTooLong ==
    \E rec \in NextRecords :
        /\ Fresh(rec)
        /\ TooLong(rec.name)
        /\ Skip(rec)

\* tagged.go:129-132
SkipWrongChar ==
    \E rec \in NextRecords :
        /\ Fresh(rec)
        /\ ~TooLong(rec.name)
        /\ WrongFirstChar(rec.name)
        /\ Skip(rec)

\* the record reached urlParse
Parsed(rec) == Fresh(rec) /\ ~TooLong(rec.name) /\ ~WrongFirstChar(rec.name)

\* tagged.go:134-137
SkipParseError ==
    \E rec \in NextRecords :
        /\ Parsed(rec)
        /\ urlParse(rec.name).err
        /\ Skip(rec)

\* tagged.go:139-188: the metric is encoded and written to the sink
Process ==
    \E rec \in NextRecords :
      LET m == urlParse(rec.name)
      IN
        /\ Parsed(rec)
        /\ ~m.err
        /\ Read(rec)
        /\ newTagged' = MarkSeen(Key(rec))
        /\ \E order \in Orders(DOMAIN m.Query) :
              LET acc == Metric(m, order)
              IN  /\ tagsBuf' = acc.tagsBuf
                  /\ tagsList' = acc.tagsList
                  /\ extraValues' = acc.extraValues
                  /\ wb' = ResetWb(wb) \o Rows(rec, acc)
        /\ \E failed \in BOOLEAN :
              /\ out' = Append(out, [chunk |-> wb', failed |-> failed])
              /\ IF failed
                 THEN /\ pc' = WriteError.pc
                      /\ ret' = WriteError.ret
                      /\ err' = WriteError.err
                 ELSE UNCHANGED <<pc, ret, err>>

\* the caller merges the returned keys into the existence cache once the
\* output has been handed off
Merge ==
    /\ pc = "returned"
    /\ err = Nil
    /\ existsCache' = existsCache \cup ret.keys
    /\ UNCHANGED <<config, file, fileEnd, clock, run, reader, pc, pos, locals, out, ret, err>>

Next ==
    \/ parseFileOpen
    \/ parseFileOpenFails
    \/ ReadEnd
    \/ SkipNotTagged
    \/ SkipExists
    \/ SkipSeen
    \/ SkipTooLong
    \/ SkipWrongChar
    \/ SkipParseError
    \/ Process
    \/ Merge

Spec == Init /\ [][Next]_vars

\* ------------------------------------------- the single-row variant, part_000
\* part_000:136-144: the loop over m.Query(); there is no tagsList
RECURSIVE QueryLoopSingle(_, _, _)
QueryLoopSingle(acc, query, order) ==
    IF order = <<>> THEN acc
    ELSE LET name   == Head(order)
             values == query[name]
             next   == IF name \in DOMAIN routeTags
                       THEN [acc EXCEPT !.extraValues = MapPut(@, routeTags[name], values[1])]
                       ELSE [acc EXCEPT !.tagsBuf = Append(@, TagString(name, values[1])),
                                        !.tagsWritten = @ + 1]
         IN  QueryLoopSingle(next, query, Tail(order))

\* part_000:131-144: what one metric leaves in the buffers
MetricSingle(m, order) ==
    QueryLoopSingle([extraValues |-> EmptyMap, tagsBuf |-> <<>>, tagsWritten |-> 1],
                    m.Query, order)

\* part_000:146-157: the metric's one row, its Name column being m.Path
RowSingle(rec, m, acc) ==
    [Date |-> rec.days, Name |-> m.Path, Path |-> rec.name,
     TagCount |-> acc.tagsWritten, Tags |-> acc.tagsBuf, Version |-> version,
     Extra |-> [j \in 1..Len(extraColumns) |-> MapGet(acc.extraValues, extraColumns[j])]]

\* part_000:129-161
ProcessSingle ==
    \E rec \in NextRecords :
      LET m == urlParse(rec.name)
      IN
        /\ Parsed(rec)
        /\ ~m.err
        /\ Read(rec)
        /\ newTagged' = MarkSeen(Key(rec))
        /\ \E order \in Orders(DOMAIN m.Query) :
              LET acc == MetricSingle(m, order)
              IN  /\ tagsBuf' = acc.tagsBuf
                  /\ extraValues' = acc.extraValues
                  /\ wb' = <<RowSingle(rec, m, acc)>>
        /\ UNCHANGED tagsList
        /\ \E failed \in BOOLEAN :
              /\ out' = Append(out, [chunk |-> wb', failed |-> failed])
              /\ IF failed
                 THEN /\ pc' = WriteError.pc
                      /\ ret' = WriteError.ret
                      /\ err' = WriteError.err
                 ELSE UNCHANGED <<pc, ret, err>>

\* part_000 has no ignored-metrics setting
InitSingle == InitWith({cfg \in ConfigChoices : cfg.IgnoredTaggedMetrics = <<>>})

NextSingle ==
    \/ parseFileOpen
    \/ parseFileOpenFails
    \/ ReadEnd
    \/ SkipNotTagged
    \/ SkipExists
    \/ SkipSeen
    \/ SkipTooLong
    \/ SkipWrongChar
    \/ SkipParseError
    \/ ProcessSingle
    \/ Merge

SpecSingle == InitSingle /\ [][NextSingle]_vars

\* ------------------------------------------------------------ properties
Range(f) == {f[i] : i \in DOMAIN f}

\* the rows handed to the sink in this call, chunk by chunk
Chunk(i) == out[i].chunk

\* the deduplication key of a row: its day and its unparsed name
RowKey(r) == <<r.Date, r.Path>>
ChunkKeys(i) == {RowKey(Chunk(i)[k]) : k \in DOMAIN Chunk(i)}

\* the metric a row was made from, parsed again from the row's unparsed name
MetricOf(r) == urlParse(r.Path)

\* for a parsed metric m: its tags that are not dedicated, the "name=value"
\* string of a tag, and its "__name__=path" string
GenericNames(m) == {n \in DOMAIN m.Query : n \notin DOMAIN routeTags}
TagOf(m, n) == n \o <<61>> \o m.Query[n][1]
NameTagOf(m) == NameTag \o <<61>> \o m.Path

\* the ignored-metrics rule: the decoded base path, or "*", is in the set
Ignored(m) == m.Path \in ignoredMetrics \/ <<42>> \in ignoredMetrics

\* C1: within one call no row is written for a key the existence cache holds,
\* and no key has rows in more than one chunk: a record whose key is in the
\* cache or was seen earlier in the file writes nothing.
C1_NoRowForKnownKey ==
    /\ \A i, j \in DOMAIN out : i # j => ChunkKeys(i) \cap ChunkKeys(j) = {}
    /\ \A i \in DOMAIN out : Cardinality(ChunkKeys(i)) = 1 /\ ChunkKeys(i) \subseteq newTagged
    /\ pc = "loop" => \A i \in DOMAIN out : ChunkKeys(i) \cap existsCache = {}
    /\ Len(out) = Cardinality(newTagged)

\* a file holding the same new record twice, read to its end, with one chunk written
C1_Witness ==
    /\ pc = "loop"
    /\ pos = 2
    /\ file[1] = file[2]
    /\ Len(out) = 1
    /\ ChunkKeys(1) = {Key(file[2])}

\* the call before this one ran to the end of the file and its keys are in the cache
PreviousPassMerged == run >= 2 /\ ~ret.isNil /\ err = Nil /\ ret.keys \subseteq existsCache

\* C2: when the previous call on the file ran to completion and every key it
\* returned is in the existence cache, this call writes nothing and returns an
\* empty seen-set and no error.
C2_SecondPassWritesNothing ==
    [][(pc = "loop" /\ PreviousPassMerged)
        => /\ out' = <<>>
           /\ newTagged' = {}
           /\ pc' = "returned" => (ret' = MapOf({}) /\ err' = Nil)]_vars

\* a second call has returned empty-handed over a file whose two metrics the
\* first call wrote and the caller merged
C2_Witness ==
    /\ run = 2
    /\ pc = "returned"
    /\ reader \in {"eof", "corrupt"}
    /\ out = <<>>
    /\ ret = MapOf({})
    /\ Len(file) = 2
    /\ file[1] # file[2]
    /\ {Key(file[1]), Key(file[2])} \subseteq existsCache
    /\ <<19000, NameCpu>> \notin existsCache

\* C3: every row carries TagCount = 1 + the number of tag names that are not
\* dedicated, and its TagBlob holds exactly that many strings: "__name__=path"
\* first, then "name=value" of each such tag once, whether or not the metric is
\* ignored.
C3_TagCountAndBlob ==
    \A i \in DOMAIN out :
        LET m == MetricOf(Chunk(i)[1])
            g == GenericNames(m)
        IN  \A k \in DOMAIN Chunk(i) :
               LET r == Chunk(i)[k]
               IN  /\ r.Path = Chunk(i)[1].Path
                   /\ r.TagCount = 1 + Cardinality(g)
                   /\ Len(r.Tags) = r.TagCount
                   /\ r.Tags[1] = NameTagOf(m)
                   /\ \E o \in Orders(g) :
                         \A x \in DOMAIN o : r.Tags[x + 1] = TagOf(m, o[x])

\* an ignored metric with two generic tags was written with TagCount 3
C3_Witness ==
    /\ out # <<>>
    /\ Ignored(MetricOf(Chunk(1)[1]))
    /\ Chunk(1)[1].Path = NameCpu
    /\ Chunk(1)[1].TagCount = 3
    /\ Len(Chunk(1)[1].Tags) = 3

\* C4: a metric that is not ignored is written as 1 + (number of generic tags)
\* rows, the first indexed by "__name__=path" and the others by the generic
\* tags, one each; the rows differ in IndexTag only, and carry the day and the
\* unparsed name of a record read from the file.
C4_RowPerIndexTag ==
    \A i \in DOMAIN out :
        LET c == Chunk(i)
            m == MetricOf(c[1])
            g == GenericNames(m)
        IN  ~Ignored(m) =>
               /\ Len(c) = 1 + Cardinality(g)
               /\ c[1].Name = NameTagOf(m)
               /\ \E o \in Orders(g) : \A x \in DOMAIN o : c[x + 1].Name = TagOf(m, o[x])
               /\ \A k \in DOMAIN c : c[k] = [c[1] EXCEPT !.Name = c[k].Name]
               /\ \E j \in 1..pos : file[j] = [days |-> c[1].Date, name |-> c[1].Path]
               /\ c[1].Version = version

\* cpu?a=1&b=2 without dedicated tags was written as 3 rows, after another metric
C4_Witness ==
    /\ Len(out) = 2
    /\ routeTags = EmptyMap
    /\ ~Ignored(MetricOf(Chunk(2)[1]))
    /\ Chunk(2)[1].Path = NameCpu
    /\ Len(Chunk(2)) = 3
    /\ Chunk(2)[3].TagCount = 3

\* C5: a metric whose decoded base path, or "*", is in the ignored set is
\* written as exactly one row, indexed by "__name__=path", whose TagBlob still
\* holds every generic tag.
C5_IgnoredMetricOneRow ==
    \A i \in DOMAIN out :
        LET c == Chunk(i)
            m == MetricOf(c[1])
        IN  Ignored(m) =>
               /\ Len(c) = 1
               /\ c[1].Name = NameTagOf(m)
               /\ \A n \in GenericNames(m) : TagOf(m, n) \in Range(c[1].Tags)

\* with "app" ignored the metric a%70p?env=p&...&r=1+2&... was written as one
\* row that has "r=1 2" in its blob
C5_Witness ==
    /\ out # <<>>
    /\ ignoredMetrics = {<<97, 112, 112>>}
    /\ Chunk(1)[1].Path = NameApp
    /\ Len(Chunk(1)) = 1
    /\ <<114, 61, 49, 32, 50>> \in Range(Chunk(1)[1].Tags)

\* C6: a dedicated tag is not counted in TagCount, and its "name=value" string
\* is neither in the TagBlob nor the IndexTag of a row (unless a generic tag of
\* the metric spells the same string); every row carries one value per
\* dedicated column in configuration order: the first value of the tag routed
\* to the column, or the empty string when this metric has no such tag.
C6_DedicatedTags ==
    \A i \in DOMAIN out :
        LET m == MetricOf(Chunk(i)[1])
            q == m.Query
            routed == DOMAIN q \cap DOMAIN routeTags
            others == {TagOf(m, n) : n \in GenericNames(m)} \cup {NameTagOf(m)}
        IN  \A k \in DOMAIN Chunk(i) :
               LET r == Chunk(i)[k]
               IN  /\ r.Path = Chunk(i)[1].Path
                   /\ r.TagCount = 1 + Cardinality(DOMAIN q \ routed)
                   /\ \A n \in routed :
                         TagOf(m, n) \notin others =>
                             TagOf(m, n) \notin Range(r.Tags) /\ r.Name # TagOf(m, n)
                   /\ Len(r.Extra) = Len(extraColumns)
                   /\ \A j \in DOMAIN extraColumns :
                         LET ns == {n \in routed : routeTags[n] = extraColumns[j]}
                         IN  IF ns = {} THEN r.Extra[j] = EmptyStr
                             ELSE \E n \in ns : r.Extra[j] = q[n][1]

\* a%70p?env=p&env=s&... then cpu?a=1&b=2 under env -> Env, b -> B: the first
\* metric's rows carry ("p", ""), the second's ("", "2")
C6_Witness ==
    /\ Len(out) = 2
    /\ extraColumns = <<"Env", "B">>
    /\ Chunk(1)[1].Path = NameApp
    /\ Chunk(1)[1].Extra = <<(<<112>>), EmptyStr>>
    /\ Chunk(2)[1].Path = NameCpu
    /\ Chunk(2)[1].Extra = <<EmptyStr, (<<50>>)>>

\* a tagged name longer than 1000 bytes, or not starting with A-Z or a-z
Malformed(name) ==
    /\ \E i \in DOMAIN name : name[i] = 63
    /\ \/ Len(name) > 1000
       \/ name[1] \notin (65..90) \cup (97..122)

\* C7: the step that reads a malformed tagged name writes nothing, returns
\* nothing and stays in the read loop.
C7_MalformedSkipped ==
    [][(pc = "loop" /\ pos' = pos + 1 /\ Malformed(file'[pos'].name))
        => /\ out' = out
           /\ newTagged' = newTagged
           /\ pc' = "loop"
           /\ ret' = ret
           /\ err' = err]_vars

\* an over-long name was skipped and the record after it was written
C7_Witness ==
    /\ pc = "loop"
    /\ pos = 2
    /\ Len(file[1].name) = 1001
    /\ ~Exists(Key(file[1]))
    /\ Len(out) = 1
    /\ ~out[1].failed
    /\ ChunkKeys(1) = {Key(file[2])}

\* C8: the step whose write fails returns the error at once with a nil map,
\* leaving the earlier chunks in the sink; from then on the call reads no
\* record and writes nothing.
C8_WriteErrorReturns ==
    [][/\ (pc = "loop" /\ Len(out') = Len(out) + 1 /\ out'[Len(out')].failed)
          => /\ pc' = "returned"
             /\ err' = "write"
             /\ ret' = NilMap
             /\ SubSeq(out', 1, Len(out)) = out
       /\ (pc = "returned" /\ err = "write" /\ run' = run)
          => /\ pos' = pos
             /\ out' = out
             /\ pc' = "returned"]_vars

\* the second metric's write failed after the first metric's chunk was written
C8_Witness ==
    /\ pc = "returned"
    /\ err = "write"
    /\ ret = NilMap
    /\ pos = 2
    /\ Len(out) = 2
    /\ ~out[1].failed
    /\ out[2].failed

\* the call ended on one of the three terminal conditions
LastWriteFailed == out # <<>> /\ out[Len(out)].failed
Corrupted == reader = "corrupt" /\ pos > 0
OpenFailed == reader = "failed"

\* C9 as stated: an open failure, a corrupted tail and a write failure each
\* make parseFile return a non-nil error.
C9_EveryTerminalConditionIsAnError ==
    (pc = "returned" /\ (OpenFailed \/ Corrupted \/ LastWriteFailed)) => err # Nil

\* C9 amended: an open failure and a write failure return a non-nil error and
\* a nil map; a corrupted tail ends the loop like end-of-input, the call
\* returning the seen-set and no error; the chunks written before stay in the
\* sink, one per key of the seen-set.
C9_TerminalConditions ==
    pc = "returned" =>
        /\ OpenFailed => (err = "open" /\ ret = NilMap /\ out = <<>>)
        /\ LastWriteFailed => (err = "write" /\ ret = NilMap)
        /\ reader \in {"eof", "corrupt"} =>
              /\ err = Nil
              /\ ret = MapOf(newTagged)
              /\ \A i \in DOMAIN out : ~out[i].failed
        /\ reader # "failed" => Len(out) = Cardinality(newTagged)

\* a corrupted tail after two written metrics: no error, both chunks in the sink
C9_Witness ==
    /\ pc = "returned"
    /\ reader = "corrupt"
    /\ Len(out) = 2
    /\ err = Nil
    /\ Cardinality(ret.keys) = 2

\* C10: in the single-row variant the TagCount of every row equals the number
\* of strings in its TagBlob, and the blob holds "__name__=path".
C10_TagCountMatchesBlob ==
    \A i \in DOMAIN out : \A k \in DOMAIN Chunk(i) :
        LET r == Chunk(i)[k]
        IN  /\ r.TagCount = Len(r.Tags)
            /\ NameTagOf(MetricOf(r)) \in Range(r.Tags)

====
